---- MODULE Spec2Model ----
(***************************************************************************)
(* Zero-width steganography with a Vigenere cipher.                        *)
(*                                                                         *)
(* Texts are sequences of Unicode code points, byte strings are sequences  *)
(* of 0..255 and bit strings ('0'/'1' strings of the source) are sequences *)
(* over {0, 1}.  Every function of the source that can raise returns a     *)
(* result record here: Ok(v) for a returned value, Err(e) for a raised     *)
(* exception (ValueError and its subclass UnicodeDecodeError).             *)
(***************************************************************************)
EXTENDS Integers, Sequences, FiniteSets, TLC

VARIABLES pc, key, files, text, container, valid, prepared, encrypted,
          decrypted, binary, stego, extracted, unframed, capacity, embeds

vars == <<pc, key, files, text, container, valid, prepared, encrypted,
          decrypted, binary, stego, extracted, unframed, capacity, embeds>>

(***************************************************************************)
(* Bounds of the explored inputs.                                          *)
(***************************************************************************)
MaxTextLen == 3
MaxKeyLen == 2

(***************************************************************************)
(* Results.                                                                *)
(***************************************************************************)
Ok(v) == [ok |-> TRUE, val |-> v, err |-> ""]
Err(e) == [ok |-> FALSE, val |-> <<>>, err |-> e]
None == [ok |-> FALSE, val |-> <<>>, err |-> "not run"]

\* a file that does not exist, a file with a text in it, and the files of a
\* run that touches none
Absent == [exists |-> FALSE, content |-> <<>>]
File(t) == [exists |-> TRUE, content |-> t]
NoFiles == [container |-> Absent, secret |-> Absent,
            stego_container |-> Absent, extracted_secret |-> Absent]

\* the capacity before get_capacity has run
Unmeasured == [spaces |-> -1, bits_capacity |-> -1]

SeqsUpTo(S, n) == UNION {[1..m -> S] : m \in 0..n}

(***************************************************************************)
(* vigenere.py / utils.py: the alphabet.                                   *)
(* A-Z, the 33 Russian capitals (with the soft sign before the hard sign), *)
(* then 12 extended capitals.                                              *)
(***************************************************************************)
LETTERS ==
  <<65, 66, 67, 68, 69, 70, 71, 72, 73, 74, 75, 76, 77, 78, 79, 80, 81, 82,
    83, 84, 85, 86, 87, 88, 89, 90,
    1040, 1041, 1042, 1043, 1044, 1045, 1025, 1046, 1047, 1048, 1049, 1050,
    1051, 1052, 1053, 1054, 1055, 1056, 1057, 1058, 1059, 1060, 1061, 1062,
    1063, 1064, 1065, 1068, 1066, 1067, 1069, 1070, 1071,
    1168, 1028, 1030, 1038, 1031, 220, 214, 196, 7838, 197, 198, 216>>

\* ch in index / ch in LETTERS
InLetters(ch) == \E i \in 1..Len(LETTERS) : LETTERS[i] = ch

\* index[ch]: the 0-based position of ch in LETTERS
index(ch) == (CHOOSE i \in 1..Len(LETTERS) : LETTERS[i] = ch) - 1

(***************************************************************************)
(* str.upper().  Python uses the full Unicode case mapping: one character  *)
(* can become several (U+00DF becomes "SS").  The mapping is given for the *)
(* Basic Latin, Latin-1 and Cyrillic ranges the explored texts are drawn   *)
(* from; every other code point of those texts is its own uppercase.       *)
(***************************************************************************)
upper_char(c) ==
  IF c \in 97..122 THEN <<c - 32>>
  ELSE IF c = 223 THEN <<83, 83>>
  ELSE IF c \in 224..254 /\ c # 247 THEN <<c - 32>>
  ELSE IF c = 255 THEN <<376>>
  ELSE IF c \in 1072..1103 THEN <<c - 32>>
  ELSE IF c \in 1104..1119 THEN <<c - 80>>
  ELSE IF c = 1169 THEN <<1168>>
  ELSE <<c>>

RECURSIVE upper(_)
upper(s) == IF s = <<>> THEN <<>> ELSE upper_char(Head(s)) \o upper(Tail(s))

\* [ch for ch in key_upper if ch in index]
RECURSIVE filter_letters(_)
filter_letters(s) ==
  IF s = <<>> THEN <<>>
  ELSE IF InLetters(Head(s)) THEN <<Head(s)>> \o filter_letters(Tail(s))
  ELSE filter_letters(Tail(s))

\* a key preparation that filters the key as typed, without uppercasing it
_prepare_key_as_typed(k) ==
  IF k = <<>> THEN Err("empty key")
  ELSE LET key_filtered == filter_letters(k)
       IN IF key_filtered = <<>> THEN Err("no valid key characters")
          ELSE Ok(key_filtered)

\* the filtered key of _prepare_key (index and n are the constants
\* index(_) and Len(LETTERS))
_prepare_key(k) ==
  IF k = <<>> THEN Err("empty key")
  ELSE LET key_filtered == filter_letters(upper(k))
       IN IF key_filtered = <<>> THEN Err("no valid key characters")
          ELSE Ok(key_filtered)

\* all(ch in LETTERS for ch in key)
RECURSIVE all_in_letters(_)
all_in_letters(s) ==
  IF s = <<>> THEN TRUE
  ELSE IF InLetters(Head(s)) THEN all_in_letters(Tail(s))
  ELSE FALSE

\* a validator that accepts a key as soon as one character is a letter
validate_key_any(k) ==
  k # <<>> /\ \E i \in 1..Len(upper(k)) : InLetters(upper(k)[i])

\* utils.validate_key
validate_key(k) ==
  IF k = <<>> THEN FALSE
  ELSE all_in_letters(upper(k))

(***************************************************************************)
(* The cipher loops.  up is text.upper(), i the 1-based position of ch in  *)
(* it, key_i the keystream position.                                       *)
(***************************************************************************)
\* an encryption that stops at the last letter instead of wrapping around
encrypt_char_clamped(ch, shift) ==
  LETTERS[(IF index(ch) + shift < Len(LETTERS) THEN index(ch) + shift
           ELSE Len(LETTERS) - 1) + 1]

encrypt_char(ch, shift) == LETTERS[((index(ch) + shift) % Len(LETTERS)) + 1]

\* a decryption that shifts forward, as encryption does
decrypt_char_forward(ch, shift) ==
  LETTERS[((index(ch) + shift) % Len(LETTERS)) + 1]

decrypt_char(ch, shift) == LETTERS[((index(ch) - shift) % Len(LETTERS)) + 1]

RECURSIVE encrypt_loop(_, _, _, _)
encrypt_loop(up, key_filtered, i, key_i) ==
  IF i > Len(up) THEN <<>>
  ELSE IF InLetters(up[i])
       THEN LET shift == index(key_filtered[(key_i % Len(key_filtered)) + 1])
            IN <<encrypt_char(up[i], shift)>>
               \o encrypt_loop(up, key_filtered, i + 1, key_i + 1)
       ELSE <<up[i]>> \o encrypt_loop(up, key_filtered, i + 1, key_i)

RECURSIVE decrypt_loop(_, _, _, _)
decrypt_loop(up, key_filtered, i, key_i) ==
  IF i > Len(up) THEN <<>>
  ELSE IF InLetters(up[i])
       THEN LET shift == index(key_filtered[(key_i % Len(key_filtered)) + 1])
            IN <<decrypt_char(up[i], shift)>>
               \o decrypt_loop(up, key_filtered, i + 1, key_i + 1)
       ELSE <<up[i]>> \o decrypt_loop(up, key_filtered, i + 1, key_i)

\* a cipher loop whose keystream advances on every character
RECURSIVE encrypt_loop_every(_, _, _, _)
encrypt_loop_every(up, key_filtered, i, key_i) ==
  IF i > Len(up) THEN <<>>
  ELSE IF InLetters(up[i])
       THEN LET shift == index(key_filtered[(key_i % Len(key_filtered)) + 1])
            IN <<encrypt_char(up[i], shift)>>
               \o encrypt_loop_every(up, key_filtered, i + 1, key_i + 1)
       ELSE <<up[i]>> \o encrypt_loop_every(up, key_filtered, i + 1, key_i + 1)

vigenere_encrypt_every(t, k) ==
  LET p == _prepare_key(k)
  IN IF ~p.ok THEN p ELSE Ok(encrypt_loop_every(upper(t), p.val, 1, 0))

vigenere_encrypt(t, k) ==
  LET p == _prepare_key(k)
  IN IF ~p.ok THEN p ELSE Ok(encrypt_loop(upper(t), p.val, 1, 0))

vigenere_decrypt(t, k) ==
  LET p == _prepare_key(k)
  IN IF ~p.ok THEN p ELSE Ok(decrypt_loop(upper(t), p.val, 1, 0))

(***************************************************************************)
(* Cipher specification: a text and a key are chosen, the key is checked   *)
(* both ways, then the text is encrypted and the ciphertext decrypted, or  *)
(* the text itself is decrypted.                                           *)
(***************************************************************************)
\* a (-> A), ya (-> index 58), O-slash (index 70), '-', sharp s (-> "SS")
TextChars == {97, 1103, 216, 45, 223}
\* B (shift 1), o-slash (-> shift 70), '!', sharp s (-> "SS")
KeyChars == {66, 248, 33, 223}

Texts == SeqsUpTo(TextChars, MaxTextLen)
Keys == SeqsUpTo(KeyChars, MaxKeyLen)

InitCipher ==
  /\ files = NoFiles
  /\ pc = "start"
  /\ text \in Texts
  /\ key \in Keys
  /\ container = <<>>
  /\ valid = FALSE
  /\ prepared = None
  /\ encrypted = None
  /\ decrypted = None
  /\ binary = <<>>
  /\ stego = None
  /\ extracted = <<>>
  /\ unframed = None
  /\ capacity = Unmeasured
  /\ embeds = 0

CheckKey ==
  /\ pc = "start"
  /\ valid' = validate_key(key)
  /\ prepared' = _prepare_key(key)
  /\ pc' = "keyed"
  /\ UNCHANGED <<key, files, text, container, encrypted, decrypted, binary,
                 stego, extracted, unframed, capacity, embeds>>

Encrypt ==
  /\ pc = "keyed"
  /\ encrypted' = vigenere_encrypt(text, key)
  /\ pc' = "encrypted"
  /\ UNCHANGED <<key, files, text, container, valid, prepared, decrypted,
                 binary, stego, extracted, unframed, capacity, embeds>>

\* decrypt what Encrypt returned
Decrypt ==
  /\ pc = "encrypted"
  /\ encrypted.ok
  /\ decrypted' = vigenere_decrypt(encrypted.val, key)
  /\ pc' = "roundtrip"
  /\ UNCHANGED <<key, files, text, container, valid, prepared, encrypted,
                 binary, stego, extracted, unframed, capacity, embeds>>

\* decrypt the chosen text itself
DecryptText ==
  /\ pc = "keyed"
  /\ decrypted' = vigenere_decrypt(text, key)
  /\ pc' = "decrypted"
  /\ UNCHANGED <<key, files, text, container, valid, prepared, encrypted,
                 binary, stego, extracted, unframed, capacity, embeds>>

NextCipher == CheckKey \/ Encrypt \/ Decrypt \/ DecryptText

SpecCipher == InitCipher /\ [][NextCipher]_vars

(***************************************************************************)
(* steganography.py: the framing codec.                                    *)
(***************************************************************************)
\* b"ZWST"
MAGIC == <<90, 87, 83, 84>>
HEADER_BITS == 64

Min(a, b) == IF a < b THEN a ELSE b

\* the Python slice s[a:b] for 0 <= a <= b
Slice(s, a, b) == SubSeq(s, a + 1, Min(b, Len(s)))

\* s[a:]
SliceFrom(s, a) == SubSeq(s, a + 1, Len(s))

Pow2(e) == IF e = 0 THEN 1 ELSE IF e = 1 THEN 2 ELSE IF e = 2 THEN 4
           ELSE IF e = 3 THEN 8 ELSE IF e = 4 THEN 16 ELSE IF e = 5 THEN 32
           ELSE IF e = 6 THEN 64 ELSE 128

\* the eight bits of a byte, least significant bit first
byte_to_bits_lsb(b) == [i \in 1..8 |-> (b \div Pow2(i - 1)) % 2]

\* f"{b:08b}": most significant bit first
byte_to_bits(b) == [i \in 1..8 |-> (b \div Pow2(8 - i)) % 2]

RECURSIVE _bytes_to_bits(_)
_bytes_to_bits(data) ==
  IF data = <<>> THEN <<>>
  ELSE byte_to_bits(Head(data)) \o _bytes_to_bits(Tail(data))

\* int(bits[i : i + 8], 2)
bits_to_byte(b) ==
  128 * b[1] + 64 * b[2] + 32 * b[3] + 16 * b[4] + 8 * b[5] + 4 * b[6]
  + 2 * b[7] + b[8]

_bits_to_bytes(bits) ==
  IF Len(bits) % 8 # 0 THEN Err("bit count not a multiple of 8")
  ELSE Ok([j \in 1..(Len(bits) \div 8) |->
             bits_to_byte(SubSeq(bits, 8 * (j - 1) + 1, 8 * j))])

\* str.encode("utf-8") of one code point (a Unicode scalar value)
utf8_char(c) ==
  IF c < 128 THEN <<c>>
  ELSE IF c < 2048 THEN <<192 + (c \div 64), 128 + (c % 64)>>
  ELSE IF c < 65536
       THEN <<224 + (c \div 4096), 128 + ((c \div 64) % 64), 128 + (c % 64)>>
  ELSE <<240 + (c \div 262144), 128 + ((c \div 4096) % 64),
         128 + ((c \div 64) % 64), 128 + (c % 64)>>

RECURSIVE utf8_encode(_)
utf8_encode(t) ==
  IF t = <<>> THEN <<>> ELSE utf8_char(Head(t)) \o utf8_encode(Tail(t))

\* bytes.decode("utf-8"), strict: a bad lead byte, a missing or bad
\* continuation byte, an overlong form, a surrogate or a value above
\* U+10FFFF raises UnicodeDecodeError
RECURSIVE utf8_decode_from(_, _)
utf8_decode_from(b, i) ==
  IF i > Len(b) THEN Ok(<<>>)
  ELSE
    LET b0 == b[i]
        n == IF b0 < 128 THEN 1
             ELSE IF b0 \in 194..223 THEN 2
             ELSE IF b0 \in 224..239 THEN 3
             ELSE IF b0 \in 240..244 THEN 4
             ELSE 0
    IN IF n = 0 \/ i + n - 1 > Len(b) THEN Err("UnicodeDecodeError")
       ELSE IF \E j \in 1..(n - 1) : b[i + j] \notin 128..191
            THEN Err("UnicodeDecodeError")
       ELSE
         LET cp == IF n = 1 THEN b0
                   ELSE IF n = 2 THEN (b0 - 192) * 64 + (b[i + 1] - 128)
                   ELSE IF n = 3
                        THEN (b0 - 224) * 4096 + (b[i + 1] - 128) * 64
                             + (b[i + 2] - 128)
                   ELSE (b0 - 240) * 262144 + (b[i + 1] - 128) * 4096
                        + (b[i + 2] - 128) * 64 + (b[i + 3] - 128)
             bad == \/ n = 3 /\ (cp < 2048 \/ cp \in 55296..57343)
                    \/ n = 4 /\ (cp < 65536 \/ cp > 1114111)
         IN IF bad THEN Err("UnicodeDecodeError")
            ELSE LET rest == utf8_decode_from(b, i + n)
                 IN IF rest.ok THEN Ok(<<cp>> \o rest.val) ELSE rest

utf8_decode(b) == utf8_decode_from(b, 1)

\* n.to_bytes(4, "big")
to_bytes4(n) ==
  <<(n \div 16777216) % 256, (n \div 65536) % 256, (n \div 256) % 256,
    n % 256>>

\* int.from_bytes(b, "big")
RECURSIVE from_bytes(_)
from_bytes(b) ==
  IF b = <<>> THEN 0
  ELSE 256 * from_bytes(SubSeq(b, 1, Len(b) - 1)) + b[Len(b)]

\* a frame whose length field counts characters instead of bytes
text_to_binary_chars(t) ==
  _bytes_to_bits(MAGIC \o to_bytes4(Len(t)) \o utf8_encode(t))

text_to_binary(t) ==
  LET payload == utf8_encode(t)
      header == MAGIC \o to_bytes4(Len(payload))
  IN _bytes_to_bits(header \o payload)

\* an unframing that does not look at the magic bytes
binary_to_text_any_magic(b) ==
  LET header == _bits_to_bytes(Slice(b, 0, HEADER_BITS))
  IN IF ~header.ok THEN header
     ELSE LET length == from_bytes(SliceFrom(header.val, 4))
              payload_bits == Slice(b, HEADER_BITS, HEADER_BITS + length * 8)
              payload == _bits_to_bytes(payload_bits)
          IN IF ~payload.ok THEN payload ELSE utf8_decode(payload.val)

\* an unframing that takes every bit after the header as the payload
binary_to_text_to_end(b) ==
  LET header == _bits_to_bytes(Slice(b, 0, HEADER_BITS))
  IN IF ~header.ok THEN header
     ELSE IF Slice(header.val, 0, 4) # MAGIC THEN Err("bad magic")
     ELSE LET payload == _bits_to_bytes(SliceFrom(b, HEADER_BITS))
          IN IF ~payload.ok THEN payload ELSE utf8_decode(payload.val)

binary_to_text(b) ==
  LET header == _bits_to_bytes(Slice(b, 0, HEADER_BITS))
  IN IF ~header.ok THEN header
     ELSE IF Slice(header.val, 0, 4) # MAGIC THEN Err("bad magic")
     ELSE LET length == from_bytes(SliceFrom(header.val, 4))
              payload_bits == Slice(b, HEADER_BITS, HEADER_BITS + length * 8)
              payload == _bits_to_bytes(payload_bits)
          IN IF ~payload.ok THEN payload ELSE utf8_decode(payload.val)

(***************************************************************************)
(* Framing specification: either a text is framed and the frame unframed,  *)
(* or a bit string is unframed.  The bit strings are the prefixes, of      *)
(* every length, of a magic (right, first byte inverted, or zero), a       *)
(* length field and payload bytes.                                         *)
(***************************************************************************)
MaxFrameTextLen == 2
MaxDeclared == 3
MaxPayloadLen == 2

\* 'A', a 2-byte, a 3-byte and a 4-byte character
FrameChars == {65, 1055, 8364, 128512}
FrameTexts == SeqsUpTo(FrameChars, MaxFrameTextLen)

\* 'A', the two bytes of U+041F, and a byte no UTF-8 text contains
PayloadBytes == {65, 208, 159, 255}
Magics == {MAGIC, <<165, 87, 83, 84>>, <<0, 0, 0, 0>>}

\* test_full.py: the first 8 bits of a bit string inverted
InvertFirst8(b) == [i \in 1..Len(b) |-> IF i <= 8 THEN 1 - b[i] ELSE b[i]]

BitInputs ==
  {InvertFirst8(text_to_binary(t)) : t \in FrameTexts} \cup
  UNION {
    LET all == _bytes_to_bits(m \o to_bytes4(d) \o p)
    IN {SubSeq(all, 1, n) : n \in 0..Len(all)} :
    <<m, d, p>> \in Magics \X (0..MaxDeclared)
                   \X SeqsUpTo(PayloadBytes, MaxPayloadLen)}

InitFrame ==
  /\ files = NoFiles
  /\ \/ pc = "text" /\ text \in FrameTexts /\ binary = <<>>
     \/ pc = "bits" /\ text = <<>> /\ binary \in BitInputs
  /\ key = <<>>
  /\ container = <<>>
  /\ valid = FALSE
  /\ prepared = None
  /\ encrypted = None
  /\ decrypted = None
  /\ stego = None
  /\ extracted = <<>>
  /\ unframed = None
  /\ capacity = Unmeasured
  /\ embeds = 0

Frame ==
  /\ pc = "text"
  /\ binary' = text_to_binary(text)
  /\ pc' = "framed"
  /\ UNCHANGED <<key, files, text, container, valid, prepared, encrypted,
                 decrypted, stego, extracted, unframed, capacity, embeds>>

\* unframe what Frame returned
Unframe ==
  /\ pc = "framed"
  /\ unframed' = binary_to_text(binary)
  /\ pc' = "reframed"
  /\ UNCHANGED <<key, files, text, container, valid, prepared, encrypted,
                 decrypted, binary, stego, extracted, capacity, embeds>>

\* unframe the chosen bit string
UnframeBits ==
  /\ pc = "bits"
  /\ unframed' = binary_to_text(binary)
  /\ pc' = "unframed"
  /\ UNCHANGED <<key, files, text, container, valid, prepared, encrypted,
                 decrypted, binary, stego, extracted, capacity, embeds>>

NextFrame == Frame \/ Unframe \/ UnframeBits

SpecFrame == InitFrame /\ [][NextFrame]_vars

(***************************************************************************)
(* steganography.py: capacity, embedding and extraction.                   *)
(***************************************************************************)
SPACE == 32
ZWS_0 == 8203
ZWNJ_1 == 8204

\* container.count(" ") over the positions lo..hi.  The count, like the
\* two loops below, is evaluated over halves of its range so that the depth
\* of the evaluation stays logarithmic in the length of the carrier.
RECURSIVE count_spaces_in(_, _, _)
count_spaces_in(c, lo, hi) ==
  IF lo > hi THEN 0
  ELSE IF lo = hi THEN (IF c[lo] = SPACE THEN 1 ELSE 0)
  ELSE LET mid == (lo + hi) \div 2
       IN count_spaces_in(c, lo, mid) + count_spaces_in(c, mid + 1, hi)

count_spaces(c) == count_spaces_in(c, 1, Len(c))

\* a capacity that counts every tab as well as every space
get_capacity_whitespace(c) ==
  LET n == Len(SelectSeq(c, LAMBDA ch : ch = SPACE \/ ch = 9))
  IN [spaces |-> n, bits_capacity |-> n]

\* a capacity that counts each run of adjacent spaces once
get_capacity_runs(c) ==
  LET starts == {p \in 1..Len(c) :
                   c[p] = SPACE /\ (p = 1 \/ c[p - 1] # SPACE)}
  IN [spaces |-> Cardinality(starts), bits_capacity |-> Cardinality(starts)]

\* CapacityInfo(spaces, spaces)
get_capacity(c) ==
  LET spaces == count_spaces(c)
  IN [spaces |-> spaces, bits_capacity |-> spaces]

\* an iteration that puts the marker in front of its space
hide_step_before(secret, ch, i) ==
  IF ch = SPACE /\ i < Len(secret)
  THEN <<IF secret[i + 1] = 0 THEN ZWS_0 ELSE ZWNJ_1, SPACE>>
  ELSE <<ch>>

\* one iteration of the embedding loop: ch is the character, i the number
\* of bits already placed
hide_step(secret, ch, i) ==
  IF ch = SPACE /\ i < Len(secret)
  THEN <<SPACE, IF secret[i + 1] = 0 THEN ZWS_0 ELSE ZWNJ_1>>
  ELSE <<ch>>

\* the iterations for the characters lo..hi of the container, entered with
\* i bits placed; an iteration places a bit exactly when it appends two
\* characters, so the second half is entered with i plus the number of
\* characters the first half inserted
RECURSIVE hide_loop(_, _, _, _, _)
hide_loop(secret, c, lo, hi, i) ==
  IF lo > hi THEN <<>>
  ELSE IF lo = hi THEN hide_step(secret, c[lo], i)
  ELSE LET mid == (lo + hi) \div 2
           left == hide_loop(secret, c, lo, mid, i)
           placed == Len(left) - (mid - lo + 1)
       IN left \o hide_loop(secret, c, mid + 1, hi, i + placed)

\* an embedding that also refuses a secret that fits exactly
hide_text_in_container_full(secret, c) ==
  IF Len(secret) >= get_capacity(c).bits_capacity
  THEN Err("container too small")
  ELSE Ok(hide_loop(secret, c, 1, Len(c), 0))

hide_text_in_container(secret, c) ==
  LET cap == get_capacity(c)
  IN IF Len(secret) > cap.bits_capacity THEN Err("container too small")
     ELSE Ok(hide_loop(secret, c, 1, Len(c), 0))

\* an iteration that advances by two characters whatever it has read
extract_step_skip(c, i) ==
  IF c[i + 1] = SPACE /\ i + 2 <= Len(c) /\ c[i + 2] = ZWS_0
  THEN [bits |-> <<0>>, i |-> i + 2, raised |-> FALSE]
  ELSE IF c[i + 1] = SPACE /\ i + 2 <= Len(c) /\ c[i + 2] = ZWNJ_1
       THEN [bits |-> <<1>>, i |-> i + 2, raised |-> FALSE]
  ELSE [bits |-> <<>>, i |-> i + 2, raised |-> FALSE]

\* one iteration of the extraction loop at the 0-based position i: the bits
\* it appends and the next value of i.  container[i + 1] is read only after
\* container[i] was found to be a space, and raises IndexError when i + 1
\* is past the last character.
extract_step(c, i) ==
  IF c[i + 1] # SPACE THEN [bits |-> <<>>, i |-> i + 1, raised |-> FALSE]
  ELSE IF i + 2 > Len(c) THEN [bits |-> <<>>, i |-> i, raised |-> TRUE]
  ELSE IF c[i + 2] = ZWS_0 THEN [bits |-> <<0>>, i |-> i + 2, raised |-> FALSE]
  ELSE IF c[i + 2] = ZWNJ_1
       THEN [bits |-> <<1>>, i |-> i + 2, raised |-> FALSE]
  ELSE [bits |-> <<>>, i |-> i + 1, raised |-> FALSE]

\* the iterations of "while i < stop" from position i on, up to the first
\* that raises
RECURSIVE extract_loop(_, _, _)
extract_loop(c, i, stop) ==
  IF ~(i < stop) THEN [bits |-> <<>>, i |-> i, raised |-> FALSE]
  ELSE IF stop - i = 1 THEN extract_step(c, i)
  ELSE LET mid == (i + stop) \div 2
           left == extract_loop(c, i, mid)
       IN IF left.raised THEN left
          ELSE LET right == extract_loop(c, left.i, stop)
               IN [bits |-> left.bits \o right.bits, i |-> right.i,
                   raised |-> right.raised]

\* a scan that runs while i < len(container)
extract_scan_to_end(c) == extract_loop(c, 0, Len(c))

\* the scan of extract_text_from_container: while i < len(container) - 1
extract_scan(c) == extract_loop(c, 0, Len(c) - 1)

\* an extraction whose scan stops one character early
extract_text_from_container_early(c) == extract_loop(c, 0, Len(c) - 2).bits

\* the bits extract_text_from_container returns
extract_text_from_container(c) == extract_scan(c).bits

(***************************************************************************)
(* Embedding specification: a bit string is hidden in a carrier and the    *)
(* marked carrier scanned, or the carrier itself is scanned.               *)
(***************************************************************************)
MaxBits == 3
MaxCarrierLen == 4

\* a space, a tab and the two markers
CarrierChars == {SPACE, 9, ZWS_0, ZWNJ_1}
\* the carriers of the repository's tests: "a b  c   ", "no_spaces" and
\* "X Y Z"
SpacedCarrier == <<97, SPACE, 98, SPACE, SPACE, 99, SPACE, SPACE, SPACE>>
NoSpacesCarrier == <<110, 111, 95, 115, 112, 97, 99, 101, 115>>
PlainCarrier == <<88, SPACE, 89, SPACE, 90>>
KnownCarriers == {SpacedCarrier, NoSpacesCarrier, PlainCarrier}
Carriers == SeqsUpTo(CarrierChars, MaxCarrierLen) \cup KnownCarriers
BitStrings == SeqsUpTo({0, 1}, MaxBits)

InitStego ==
  /\ files = NoFiles
  /\ pc = "bits"
  /\ binary \in BitStrings
  /\ container \in Carriers
  /\ key = <<>>
  /\ text = <<>>
  /\ valid = FALSE
  /\ prepared = None
  /\ encrypted = None
  /\ decrypted = None
  /\ stego = None
  /\ extracted = <<>>
  /\ unframed = None
  /\ capacity = Unmeasured
  /\ embeds = 0

Hide ==
  /\ pc \in {"bits", "framed"}
  /\ stego' = hide_text_in_container(binary, container)
  /\ pc' = "hidden"
  /\ UNCHANGED <<key, files, text, container, valid, prepared, encrypted,
                 decrypted, binary, extracted, unframed, capacity, embeds>>

\* scan what Hide returned
Extract ==
  /\ pc = "hidden"
  /\ stego.ok
  /\ extracted' = extract_text_from_container(stego.val)
  /\ pc' = IF extract_scan(stego.val).raised THEN "raised" ELSE "extracted"
  /\ UNCHANGED <<key, files, text, container, valid, prepared, encrypted,
                 decrypted, binary, stego, unframed, capacity, embeds>>

\* scan the chosen carrier itself
ExtractCarrier ==
  /\ pc = "bits"
  /\ extracted' = extract_text_from_container(container)
  /\ pc' = IF extract_scan(container).raised THEN "raised" ELSE "scanned"
  /\ UNCHANGED <<key, files, text, container, valid, prepared, encrypted,
                 decrypted, binary, stego, unframed, capacity, embeds>>

\* measure the chosen carrier
Capacity ==
  /\ pc = "bits"
  /\ capacity' = get_capacity(container)
  /\ pc' = "measured"
  /\ UNCHANGED <<key, files, text, container, valid, prepared, encrypted,
                 decrypted, binary, stego, extracted, unframed, embeds>>

NextStego == Hide \/ Extract \/ ExtractCarrier \/ Capacity

SpecStego == InitStego /\ [][NextStego]_vars

(***************************************************************************)
(* Frame-and-embed specification: a text is framed, the frame hidden in a  *)
(* carrier, the marked carrier scanned and the scanned bits unframed.  The *)
(* carriers are a head, a run of "A " and a tail; head and tail may hold   *)
(* spaces and marker characters of their own.                              *)
(***************************************************************************)
MaxTailLen == 2
\* how far the run of "A " may fall short of the shortest frame
MaxShort == 3

\* the empty text, 'A' and a 2-byte character: frames of 64, 72 and 80 bits
EmbedTexts == {<<>>, <<65>>, <<1055>>}
Heads == {<<>>, <<SPACE, ZWNJ_1>>, <<ZWS_0, SPACE>>}
Tails == SeqsUpTo(CarrierChars, MaxTailLen)
PadCounts == (HEADER_BITS - MaxShort)..(HEADER_BITS + 17)

\* "A " * n
Pad(n) == [k \in 1..(2 * n) |-> IF k % 2 = 1 THEN 65 ELSE SPACE]

LongCarriers == {h \o Pad(n) \o t : h \in Heads, n \in PadCounts, t \in Tails}

InitEmbed ==
  /\ files = NoFiles
  /\ pc = "text"
  /\ text \in EmbedTexts
  /\ container \in LongCarriers
  /\ key = <<>>
  /\ valid = FALSE
  /\ prepared = None
  /\ encrypted = None
  /\ decrypted = None
  /\ binary = <<>>
  /\ stego = None
  /\ extracted = <<>>
  /\ unframed = None
  /\ capacity = Unmeasured
  /\ embeds = 0

\* unframe what Extract returned
UnframeExtracted ==
  /\ pc = "extracted"
  /\ unframed' = binary_to_text(extracted)
  /\ pc' = "recovered"
  /\ UNCHANGED <<key, files, text, container, valid, prepared, encrypted,
                 decrypted, binary, stego, extracted, capacity, embeds>>

NextEmbed == Frame \/ Hide \/ Extract \/ UnframeExtracted

SpecEmbed == InitEmbed /\ [][NextEmbed]_vars

(***************************************************************************)
(* Repeated embedding: bits, or the frame of a text, are hidden in a       *)
(* carrier, scanned and unframed; then the marked carrier is the carrier   *)
(* of the next embedding, of a text after a recovered text and of bits     *)
(* after bits that were no frame.                                          *)
(***************************************************************************)
MaxEmbeds == 2
MaxReCarrierLen == 2

\* bit strings too short to be a frame
ReBits == {<<>>, <<1>>, <<0, 1>>}
ReTails == {<<>>, <<SPACE>>, <<SPACE, ZWNJ_1>>}
ReCarriers ==
  SeqsUpTo(CarrierChars, MaxReCarrierLen)
    \cup {h \o Pad(n) \o t :
            h \in Heads, n \in {HEADER_BITS + 8, HEADER_BITS + 16},
            t \in ReTails}

InitReEmbed ==
  /\ files = NoFiles
  /\ container \in ReCarriers
  /\ \/ pc = "text" /\ text \in EmbedTexts /\ binary = <<>>
     \/ pc = "bits" /\ text = <<>> /\ binary \in ReBits
  /\ key = <<>>
  /\ valid = FALSE
  /\ prepared = None
  /\ encrypted = None
  /\ decrypted = None
  /\ stego = None
  /\ extracted = <<>>
  /\ unframed = None
  /\ capacity = Unmeasured
  /\ embeds = 0

\* the marked carrier becomes the carrier of another text
ReEmbedText ==
  /\ pc = "recovered"
  /\ unframed.ok
  /\ embeds < MaxEmbeds
  /\ container' = stego.val
  /\ text' \in EmbedTexts
  /\ embeds' = embeds + 1
  /\ pc' = "text"
  /\ UNCHANGED <<key, files, valid, prepared, encrypted, decrypted, binary,
                 stego, extracted, unframed, capacity>>

\* the marked carrier becomes the carrier of other bits
ReEmbedBits ==
  /\ pc = "recovered"
  /\ ~unframed.ok
  /\ embeds < MaxEmbeds
  /\ container' = stego.val
  /\ binary' \in ReBits
  /\ embeds' = embeds + 1
  /\ pc' = "bits"
  /\ UNCHANGED <<key, files, text, valid, prepared, encrypted, decrypted,
                 stego, extracted, unframed, capacity>>

NextReEmbed ==
  \/ Frame \/ Hide \/ Extract \/ UnframeExtracted
  \/ ReEmbedText \/ ReEmbedBits

SpecReEmbed == InitReEmbed /\ [][NextReEmbed]_vars

(***************************************************************************)
(* main.py: the command line.  One run of the hide command, then one run   *)
(* of the extract command on the file the first run wrote, with the same   *)
(* key.  An exception leaves main at "raised", SystemExit at "exit".  The  *)
(* handlers of gui.py call the same functions in the same order.           *)
(***************************************************************************)
MaxAppKeyLen == 1
MaxAppTextLen == 1
\* a run of "A " long enough for every frame of the explored secrets
AppPad == 100

\* 'B', o-slash and '!'
AppKeyChars == {66, 248, 33}
\* 'a', sharp s, '-' and the capital ya
AppTextChars == {97, 223, 45, 1071}
AppKeys == SeqsUpTo(AppKeyChars, MaxAppKeyLen)
AppSecrets == SeqsUpTo(AppTextChars, MaxAppTextLen)
AppTails == {<<>>, <<SPACE>>, <<SPACE, ZWS_0>>}
AppCarriers ==
  {h \o Pad(n) \o t :
     h \in Heads, n \in {0, HEADER_BITS + 8, AppPad}, t \in AppTails}

\* utils.read_file: the text of the file, decoded as UTF-8.  The explored
\* files hold no carriage return, so the newline translation of text mode
\* changes nothing.
read_file(f) == IF f.exists THEN Ok(f.content) ELSE Err("OSError")

\* utils.write_file
write_file(fs, name, content) == [fs EXCEPT ![name] = File(content)]

InitApp ==
  /\ pc = "main"
  /\ key \in AppKeys
  /\ \E c \in AppCarriers, s \in AppSecrets :
       files = [container |-> File(c), secret |-> File(s),
                stego_container |-> Absent, extracted_secret |-> Absent]
  /\ text = <<>>
  /\ container = <<>>
  /\ valid = FALSE
  /\ prepared = None
  /\ encrypted = None
  /\ decrypted = None
  /\ binary = <<>>
  /\ stego = None
  /\ extracted = <<>>
  /\ unframed = None
  /\ capacity = Unmeasured
  /\ embeds = 0

\* a hide command that goes on to read its files whatever validate_key
\* answered
HideValidate_unchecked ==
  /\ pc = "main"
  /\ valid' = validate_key(key)
  /\ pc' = "hide_read"
  /\ UNCHANGED <<key, files, text, container, prepared, encrypted, decrypted,
                 binary, stego, extracted, unframed, capacity, embeds>>

\* if not validate_key(args.key): raise SystemExit
HideValidate ==
  /\ pc = "main"
  /\ valid' = validate_key(key)
  /\ pc' = IF valid' THEN "hide_read" ELSE "exit"
  /\ UNCHANGED <<key, files, text, container, prepared, encrypted, decrypted,
                 binary, stego, extracted, unframed, capacity, embeds>>

HideRead ==
  /\ pc = "hide_read"
  /\ container' = read_file(files.container).val
  /\ text' = read_file(files.secret).val
  /\ pc' = "hide_encrypt"
  /\ UNCHANGED <<key, files, valid, prepared, encrypted, decrypted, binary,
                 stego, extracted, unframed, capacity, embeds>>

HideEncrypt ==
  /\ pc = "hide_encrypt"
  /\ encrypted' = vigenere_encrypt(text, key)
  /\ pc' = IF encrypted'.ok THEN "hide_frame" ELSE "raised"
  /\ UNCHANGED <<key, files, text, container, valid, prepared, decrypted,
                 binary, stego, extracted, unframed, capacity, embeds>>

HideFrame ==
  /\ pc = "hide_frame"
  /\ binary' = text_to_binary(encrypted.val)
  /\ pc' = "hide_embed"
  /\ UNCHANGED <<key, files, text, container, valid, prepared, encrypted,
                 decrypted, stego, extracted, unframed, capacity, embeds>>

HideEmbed ==
  /\ pc = "hide_embed"
  /\ stego' = hide_text_in_container(binary, container)
  /\ pc' = IF stego'.ok THEN "hide_write" ELSE "raised"
  /\ UNCHANGED <<key, files, text, container, valid, prepared, encrypted,
                 decrypted, binary, extracted, unframed, capacity, embeds>>

HideWrite ==
  /\ pc = "hide_write"
  /\ files' = write_file(files, "stego_container", stego.val)
  /\ pc' = "hide_done"
  /\ UNCHANGED <<key, text, container, valid, prepared, encrypted, decrypted,
                 binary, stego, extracted, unframed, capacity, embeds>>

\* the second run: extract, with the key of the first
ExtractValidate ==
  /\ pc = "hide_done"
  /\ valid' = validate_key(key)
  /\ pc' = IF valid' THEN "extract_read" ELSE "exit"
  /\ UNCHANGED <<key, files, text, container, prepared, encrypted, decrypted,
                 binary, stego, extracted, unframed, capacity, embeds>>

\* data = read_file(args.input); bits = extract_text_from_container(data)
ExtractScan ==
  /\ pc = "extract_read"
  /\ extracted' =
       extract_text_from_container(read_file(files.stego_container).val)
  /\ pc' = IF extract_scan(read_file(files.stego_container).val).raised
           THEN "raised" ELSE "extract_unframe"
  /\ UNCHANGED <<key, files, text, container, valid, prepared, encrypted,
                 decrypted, binary, stego, unframed, capacity, embeds>>

ExtractUnframe ==
  /\ pc = "extract_unframe"
  /\ unframed' = binary_to_text(extracted)
  /\ pc' = IF unframed'.ok THEN "extract_decrypt" ELSE "raised"
  /\ UNCHANGED <<key, files, text, container, valid, prepared, encrypted,
                 decrypted, binary, stego, extracted, capacity, embeds>>

ExtractDecrypt ==
  /\ pc = "extract_decrypt"
  /\ decrypted' = vigenere_decrypt(unframed.val, key)
  /\ pc' = IF decrypted'.ok THEN "extract_write" ELSE "raised"
  /\ UNCHANGED <<key, files, text, container, valid, prepared, encrypted,
                 binary, stego, extracted, unframed, capacity, embeds>>

ExtractWrite ==
  /\ pc = "extract_write"
  /\ files' = write_file(files, "extracted_secret", decrypted.val)
  /\ pc' = "extract_done"
  /\ UNCHANGED <<key, text, container, valid, prepared, encrypted, decrypted,
                 binary, stego, extracted, unframed, capacity, embeds>>

NextApp ==
  \/ HideValidate \/ HideRead \/ HideEncrypt \/ HideFrame \/ HideEmbed
  \/ HideWrite \/ ExtractValidate \/ ExtractScan \/ ExtractUnframe
  \/ ExtractDecrypt \/ ExtractWrite

SpecApp == InitApp /\ [][NextApp]_vars

(***************************************************************************)
(* The front end on any input: as above, and besides a first run may be    *)
(* the extract command on a file that no hide command wrote.               *)
(***************************************************************************)
\* input files of the extract command: "X Y Z", which holds no bit; three
\* marked spaces; a frame of "B" the hide command could have written; and
\* sixty-four marked spaces that spell no magic
FrontInputs ==
  {PlainCarrier,
   <<SPACE, ZWS_0, SPACE, ZWNJ_1, SPACE, ZWS_0>>,
   hide_text_in_container(text_to_binary(<<66>>),
                          Pad(HEADER_BITS + 8)).val,
   hide_text_in_container([i \in 1..HEADER_BITS |-> 0],
                          Pad(HEADER_BITS)).val}

InitFront ==
  /\ pc = "main"
  /\ key \in AppKeys
  /\ \/ \E c \in AppCarriers, s \in AppSecrets :
          files = [container |-> File(c), secret |-> File(s),
                   stego_container |-> Absent, extracted_secret |-> Absent]
     \/ \E d \in FrontInputs :
          files = [container |-> File(Pad(HEADER_BITS + 8)),
                   secret |-> File(<<97>>),
                   stego_container |-> File(d), extracted_secret |-> Absent]
  /\ text = <<>>
  /\ container = <<>>
  /\ valid = FALSE
  /\ prepared = None
  /\ encrypted = None
  /\ decrypted = None
  /\ binary = <<>>
  /\ stego = None
  /\ extracted = <<>>
  /\ unframed = None
  /\ capacity = Unmeasured
  /\ embeds = 0

\* the extract command as the first run, on a file that is there
ExtractValidateFirst ==
  /\ pc = "main"
  /\ files.stego_container.exists
  /\ valid' = validate_key(key)
  /\ pc' = IF valid' THEN "extract_read" ELSE "exit"
  /\ UNCHANGED <<key, files, text, container, prepared, encrypted, decrypted,
                 binary, stego, extracted, unframed, capacity, embeds>>

NextFront == NextApp \/ ExtractValidateFirst

SpecFront == InitFront /\ [][NextFront]_vars

(***************************************************************************)
(* Cipher claims.                                                          *)
(***************************************************************************)
HasLetter(s) == \E i \in 1..Len(s) : InLetters(s[i])

\* the number of alphabet characters of up before position p
LettersBefore(up, p) == Cardinality({q \in 1..(p - 1) : InLetters(up[q])})

\* C1: for every text and every key with at least one alphabet character
\* after uppercasing, encryption succeeds and decrypting the ciphertext with
\* the same key returns the uppercased text.
C1_CipherRoundTrip ==
  /\ (pc = "encrypted" /\ HasLetter(upper(key))) => encrypted.ok
  /\ pc = "roundtrip" => decrypted = Ok(upper(text))

\* a text interleaving letters and other characters, whose uppercase is
\* longer than the text, under a shorter key with a discarded character
C1_Witness ==
  /\ pc = "roundtrip"
  /\ text = <<97, 45, 223>>
  /\ key = <<33, 248>>
  /\ encrypted.val = <<216, 45, 82, 82>>
  /\ decrypted.val = <<65, 45, 83, 83>>

\* C9: a character of the uppercased input outside the alphabet is output
\* unchanged at its position and does not advance the keystream; the j-th
\* alphabet character is shifted by the index of character j mod |key| of
\* the prepared key, forward in encryption and backward in decryption, and
\* encrypt("A-B C!", "B") = "B-C D!".
C9_PositionalShift(up, kf, out, sign) ==
  /\ Len(out) = Len(up)
  /\ \A p \in 1..Len(up) :
       IF InLetters(up[p])
       THEN LET j == LettersBefore(up, p)
                s == index(kf[(j % Len(kf)) + 1])
            IN out[p] = LETTERS[((index(up[p]) + sign * s) % Len(LETTERS)) + 1]
       ELSE out[p] = up[p]

C9_NonAlphabetPreserved ==
  /\ (pc = "encrypted" /\ encrypted.ok) =>
       C9_PositionalShift(upper(text), prepared.val, encrypted.val, 1)
  /\ (pc = "decrypted" /\ decrypted.ok) =>
       C9_PositionalShift(upper(text), prepared.val, decrypted.val, -1)
  /\ vigenere_encrypt(<<65, 45, 66, 32, 67, 33>>, <<66>>)
       = Ok(<<66, 45, 67, 32, 68, 33>>)

\* "a-Ø" under the key "Bø": the '-' keeps its place and the second letter
\* takes the second key character
C9_Witness ==
  /\ pc = "encrypted"
  /\ text = <<97, 45, 216>>
  /\ key = <<66, 248>>
  /\ encrypted.val = <<66, 45, 198>>

\* C10: validate_key(k) holds iff k is non-empty and every character of the
\* uppercased k is in the alphabet; _prepare_key(k) succeeds iff k is
\* non-empty and some character of the uppercased k is in the alphabet; a
\* valid key is prepared to the whole uppercased key, and not conversely:
\* "A!" is invalid but is prepared to "A".
C10_KeyAsymmetry ==
  /\ pc # "start" =>
       LET ku == upper(key)
       IN /\ valid <=> (key # <<>> /\ \A i \in 1..Len(ku) : InLetters(ku[i]))
          /\ prepared.ok <=>
               (key # <<>> /\ \E i \in 1..Len(ku) : InLetters(ku[i]))
          /\ valid => (prepared.ok /\ prepared.val = ku)
  /\ validate_key(<<65, 33>>) = FALSE
  /\ _prepare_key(<<65, 33>>) = Ok(<<65>>)

\* a key the validator rejects and the cipher accepts
C10_Witness ==
  /\ pc = "keyed"
  /\ key = <<66, 33>>
  /\ ~valid
  /\ prepared = Ok(<<66>>)

(***************************************************************************)
(* Framing claims.                                                         *)
(***************************************************************************)
MagicBits == _bytes_to_bits(MAGIC)

\* the LENGTH field of a bit string with a whole header
DeclaredLength(b) == from_bytes(_bits_to_bytes(SubSeq(b, 33, HEADER_BITS)).val)

\* C2: for every text t, binary_to_text(text_to_binary(t)) = t, the empty
\* text and texts of multi-byte characters included.
C2_FramingRoundTrip ==
  pc = "reframed" => unframed = Ok(text)

\* a text of a 2-byte and a 4-byte character, framed in 64 + 48 bits
C2_Witness ==
  /\ pc = "reframed"
  /\ text = <<1055, 128512>>
  /\ Len(binary) = 112
  /\ unframed.ok
  /\ unframed.val = <<1055, 128512>>

\* C5: binary_to_text fails for every bit string of fewer than 64 bits and
\* never returns a text for one.
C5_TruncatedHeaderFails ==
  (pc = "unframed" /\ Len(binary) < HEADER_BITS) => ~unframed.ok

\* C6: when a valid 64-bit header declares length L and fewer than 8*L bits
\* follow it, binary_to_text fails; whenever it returns a text, the UTF-8
\* length of the text is the header's LENGTH field.
C6_ShortPayloadFails ==
  (/\ pc = "unframed"
   /\ Len(binary) >= HEADER_BITS
   /\ SubSeq(binary, 1, 32) = MagicBits) =>
    /\ Len(binary) - HEADER_BITS < 8 * DeclaredLength(binary) => ~unframed.ok
    /\ unframed.ok => Len(utf8_encode(unframed.val)) = DeclaredLength(binary)

\* C7: binary_to_text fails for every bit string of at least 64 bits whose
\* first 32 bits are not the bits of "ZWST"; in particular for every frame
\* whose first 8 bits were inverted.
C7_MagicMismatchFails ==
  /\ (/\ pc = "unframed"
      /\ Len(binary) >= HEADER_BITS
      /\ SubSeq(binary, 1, 32) # MagicBits) => ~unframed.ok
  /\ (/\ pc = "unframed"
      /\ \E t \in FrameTexts : binary = InvertFirst8(text_to_binary(t))) =>
       ~unframed.ok

\* the frame of "A" with its first 8 bits inverted is rejected for its magic
C7_Witness ==
  /\ pc = "unframed"
  /\ binary = InvertFirst8(text_to_binary(<<65>>))
  /\ Len(binary) = 72
  /\ unframed = Err("bad magic")

(***************************************************************************)
(* Embedding claims.                                                       *)
(***************************************************************************)
\* the positions of the spaces of c
SpacePositions(c) == {p \in 1..Len(c) : c[p] = SPACE}

IsMarker(ch) == ch = ZWS_0 \/ ch = ZWNJ_1

\* some space of c after its first n spaces is immediately followed by a
\* marker character
MarkedSpaceAfter(c, n) ==
  \E p \in 1..(Len(c) - 1) :
    /\ c[p] = SPACE
    /\ IsMarker(c[p + 1])
    /\ Cardinality({q \in 1..p : c[q] = SPACE}) > n

\* C8: hide_text_in_container fails, returning no marked carrier, whenever
\* there are more bits than space characters in the carrier, and succeeds
\* whenever there are not.
C8_CapacityChecked ==
  pc = "hidden" =>
    /\ stego.ok <=> Len(binary) <= Cardinality(SpacePositions(container))
    /\ ~stego.ok => stego = Err("container too small")
    /\ stego.ok => Len(stego.val) = Len(container) + Len(binary)

\* three bits are refused by a carrier of two spaces
C8_Witness ==
  /\ pc = "hidden"
  /\ container = <<SPACE, 9, SPACE>>
  /\ binary = <<0, 1, 1>>
  /\ stego = Err("container too small")

\* C3 as stated: for every text t and every carrier with at least
\* len(frame(t)) spaces, the bits extracted from the marked carrier are
\* frame(t), and unframing them yields t.
C3_EmbedRoundTrip ==
  /\ pc = "extracted" => extracted = binary
  /\ pc = "recovered" => unframed = Ok(text)

\* C3 amended: the extracted bits are frame(t) for every carrier with at
\* least len(frame(t)) spaces in which no space after the first
\* len(frame(t)) spaces is immediately followed by a marker character; for
\* every carrier with at least len(frame(t)) spaces, unframing the
\* extracted bits yields t.
C3_EmbedRoundTripUnmarked ==
  /\ (pc = "extracted" /\ ~MarkedSpaceAfter(container, Len(binary))) =>
       extracted = binary
  /\ pc = "recovered" => unframed = Ok(text)

\* the frame of a 2-byte character comes back from a carrier with exactly
\* as many spaces as the frame has bits
C3_Witness ==
  /\ pc = "recovered"
  /\ text = <<1055>>
  /\ Len(binary) = 80
  /\ Cardinality(SpacePositions(container)) = 80
  /\ ~MarkedSpaceAfter(container, 80)
  /\ extracted = binary
  /\ unframed.val = <<1055>>

(***************************************************************************)
(* End-to-end claim.                                                       *)
(***************************************************************************)
\* C4 as stated: for every strictly valid key, every secret text and every
\* carrier with enough spaces, hiding and then extracting with the same key
\* recovers the original secret text.
C4_EndToEnd ==
  pc = "extract_done" =>
    files.extracted_secret = File(files.secret.content)

\* C4 amended: hiding and then extracting with the same strictly valid key
\* recovers the uppercased secret text; with a valid key the only failure
\* of the two runs is a carrier with fewer spaces than the frame has bits.
C4_EndToEndUppercased ==
  /\ pc = "extract_done" =>
       files.extracted_secret = File(upper(files.secret.content))
  /\ pc = "raised" =>
       /\ stego = Err("container too small")
       /\ Cardinality(SpacePositions(container)) < Len(binary)
  /\ pc = "exit" => ~validate_key(key)

\* the secret "a" comes back as "A" from a carrier that already held a
\* marked space of its own
C4_Witness ==
  /\ pc = "extract_done"
  /\ key = <<248>>
  /\ files.secret.content = <<97>>
  /\ encrypted.val = <<216>>
  /\ MarkedSpaceAfter(files.container.content, Len(binary))
  /\ files.extracted_secret.content = <<65>>

(***************************************************************************)
(* Invalid keys.                                                           *)
(***************************************************************************)
\* C11: vigenere_encrypt and vigenere_decrypt fail for every text, the
\* empty text included, exactly when the key is empty or no character of
\* the uppercased key is in the alphabet; for every other key they return
\* a text.  A failure returns no text at all.
C11_InvalidKeyFails ==
  LET bad == key = <<>> \/ ~HasLetter(upper(key))
  IN /\ pc = "encrypted" =>
          /\ encrypted.ok <=> ~bad
          /\ bad => encrypted \in {Err("empty key"),
                                   Err("no valid key characters")}
          /\ ~bad => Len(encrypted.val) = Len(upper(text))
     /\ pc = "decrypted" =>
          /\ decrypted.ok <=> ~bad
          /\ bad => decrypted \in {Err("empty key"),
                                   Err("no valid key characters")}
          /\ ~bad => Len(decrypted.val) = Len(upper(text))

\* the empty text under the key "!" is an error, not the empty ciphertext
C11_Witness ==
  /\ pc = "encrypted"
  /\ text = <<>>
  /\ key = <<33>>
  /\ encrypted = Err("no valid key characters")

(***************************************************************************)
(* Capacity.                                                               *)
(***************************************************************************)
\* C12: for every carrier get_capacity returns spaces and bits_capacity
\* both equal to the number of U+0020 characters of the carrier, which is 0
\* for a carrier without spaces; no other character, the tab included,
\* adds capacity.
C12_CapacityIsSpaceCount ==
  pc = "measured" =>
    /\ capacity.spaces = Cardinality(SpacePositions(container))
    /\ capacity.bits_capacity = capacity.spaces
    /\ SpacePositions(container) = {} => capacity.bits_capacity = 0
    /\ capacity =
         get_capacity(SelectSeq(container, LAMBDA ch : ch = SPACE))

\* two spaces among a tab and a marker
C12_Witness ==
  /\ pc = "measured"
  /\ container = <<SPACE, 9, ZWS_0, SPACE>>
  /\ capacity = [spaces |-> 2, bits_capacity |-> 2]

\* C13 as stated: the capacity of "a b  c   " is 4 and that of "no_spaces"
\* is 0.
C13_KnownCapacityFour ==
  pc = "measured" =>
    /\ container = SpacedCarrier => capacity.bits_capacity = 4
    /\ container = NoSpacesCarrier => capacity.bits_capacity = 0

\* C13: the capacity of "a b  c   ", the 9-character string a, space, b,
\* space, space, c, space, space, space, is 6, one for each of its six
\* spaces, and the capacity of "no_spaces" is 0.
C13_KnownCapacitySix ==
  pc = "measured" =>
    /\ container = SpacedCarrier =>
         capacity = [spaces |-> 6, bits_capacity |-> 6]
    /\ container = NoSpacesCarrier =>
         capacity = [spaces |-> 0, bits_capacity |-> 0]

C13_Witness ==
  /\ pc = "measured"
  /\ container = SpacedCarrier
  /\ Len(container) = 9
  /\ capacity.bits_capacity = 6

(***************************************************************************)
(* Extraction.                                                             *)
(***************************************************************************)
\* the positions of the spaces of c that a marker immediately follows
PairPositions(c) ==
  {p \in 1..(Len(c) - 1) : c[p] = SPACE /\ IsMarker(c[p + 1])}

\* the bit a marker stands for
MarkerBit(ch) == IF ch = ZWS_0 THEN 0 ELSE 1

\* one bit for each space+marker pair of c, in increasing position order
PairBits(c) ==
  [k \in 1..Cardinality(PairPositions(c)) |->
     LET p == CHOOSE q \in PairPositions(c) :
                Cardinality({r \in PairPositions(c) : r < q}) = k - 1
     IN MarkerBit(c[p + 1])]

\* C14: extract_text_from_container returns a bit sequence for every text,
\* the empty text, a one-character text and a text ending in a space
\* included, and never raises or reads past the end of the text; when no
\* space is immediately followed by a marker the result is empty.
C14_ExtractionTotal ==
  /\ pc # "raised"
  /\ pc = "bits" => ~extract_scan(container).raised
  /\ pc = "scanned" =>
       /\ extracted \in Seq({0, 1})
       /\ extract_scan(container).i <= Len(container)
       /\ PairPositions(container) = {} => extracted = <<>>
       /\ Len(container) <= 1 => extracted = <<>>
       /\ container = PlainCarrier => extracted = <<>>

\* a text ending in a space whose last character is read but not passed
C14_Witness ==
  /\ pc = "scanned"
  /\ container = <<SPACE, ZWNJ_1, 9, SPACE>>
  /\ extracted = <<1>>
  /\ extract_scan(container).i = 3

\* C17: extract_text_from_container returns one bit for each position at
\* which a space is immediately followed by a marker, in increasing
\* position order, 0 for U+200B and 1 for U+200C; a marker that no space
\* precedes gives no bit; an iteration advances by two characters after a
\* space+marker pair and by one character otherwise.
C17_ExtractIsPairBits ==
  /\ pc = "scanned" =>
       /\ extracted = PairBits(container)
       /\ \A i \in 0..(Len(container) - 2) :
            extract_step(container, i).i =
              IF i + 1 \in PairPositions(container) THEN i + 2 ELSE i + 1
  /\ pc = "extracted" => extracted = PairBits(stego.val)

\* the marker at the start has no space before it and gives no bit
C17_Witness ==
  /\ pc = "scanned"
  /\ container = <<ZWS_0, SPACE, ZWNJ_1, SPACE>>
  /\ extracted = <<1>>

(***************************************************************************)
(* Embedding is insertion after spaces.                                    *)
(***************************************************************************)
\* the number of spaces of c before position p
SpacesBefore(c, p) == Cardinality({q \in SpacePositions(c) : q < p})

\* the position of the k-th space of c
NthSpace(c, k) == CHOOSE p \in SpacePositions(c) : SpacesBefore(c, p) = k - 1

\* C16: when there are no more bits than spaces, hide_text_in_container
\* returns the carrier with one character inserted per bit and nothing
\* deleted or reordered; the k-th inserted character stands immediately
\* after the k-th space and is U+200B for bit 0 and U+200C for bit 1;
\* later spaces get no marker, and with no bits the carrier is returned
\* unchanged.
C16_EmbedInsertsAfterSpaces ==
  pc = "hidden" /\ Len(binary) <= Cardinality(SpacePositions(container)) =>
    /\ stego.ok
    /\ Len(stego.val) = Len(container) + Len(binary)
    /\ \A p \in 1..Len(container) :
         stego.val[p + Min(SpacesBefore(container, p), Len(binary))]
           = container[p]
    /\ \A k \in 1..Len(binary) :
         LET p == NthSpace(container, k)
         IN /\ stego.val[p + k - 1] = SPACE
            /\ stego.val[p + k] = IF binary[k] = 0 THEN ZWS_0 ELSE ZWNJ_1
    /\ binary = <<>> => stego.val = container

\* two bits in a carrier of three spaces: the third space stays bare
C16_Witness ==
  /\ pc = "hidden"
  /\ container = <<SPACE, 9, SPACE, SPACE>>
  /\ binary = <<1, 0>>
  /\ stego = Ok(<<SPACE, ZWNJ_1, 9, SPACE, ZWS_0, SPACE>>)

(***************************************************************************)
(* The wire format of a frame.                                             *)
(***************************************************************************)
\* the unsigned integer a bit sequence writes, most significant bit first
BitsValue(b) ==
  LET v[n \in 0..Len(b)] == IF n = 0 THEN 0 ELSE 2 * v[n - 1] + b[n]
  IN v[Len(b)]

\* the UTF-8 bytes of the characters U+0041, U+041F, U+20AC and U+1F600,
\* from the encoding's tables
KnownUtf8(ch) ==
  CASE ch = 65 -> <<65>>
    [] ch = 1055 -> <<208, 159>>
    [] ch = 8364 -> <<226, 130, 172>>
    [] ch = 128512 -> <<240, 159, 152, 128>>

\* the UTF-8 bytes of a text of those characters
KnownUtf8Text(t) ==
  LET e[n \in 0..Len(t)] ==
        IF n = 0 THEN <<>> ELSE e[n - 1] \o KnownUtf8(t[n])
  IN e[Len(t)]

\* the bytes "ZWST", most significant bit of each byte first
ZwstBits ==
  <<0, 1, 0, 1, 1, 0, 1, 0,  0, 1, 0, 1, 0, 1, 1, 1,
    0, 1, 0, 1, 0, 0, 1, 1,  0, 1, 0, 1, 0, 1, 0, 0>>

\* C18: for every text whose UTF-8 encoding has L bytes, text_to_binary
\* returns 64 + 8 * L bits: the bytes "ZWST", then L as a 32-bit
\* big-endian unsigned integer, then the UTF-8 bytes of the text in order,
\* every byte as 8 bits most significant bit first.
C18_FrameWireFormat ==
  pc = "framed" =>
    LET bytes == KnownUtf8Text(text)
        L == Len(bytes)
    IN /\ binary \in Seq({0, 1})
       /\ Len(binary) = 64 + 8 * L
       /\ Len(binary) % 8 = 0
       /\ SubSeq(binary, 1, 32) = ZwstBits
       /\ BitsValue(SubSeq(binary, 33, 64)) = L
       /\ \A j \in 1..L :
            BitsValue(SubSeq(binary, 64 + 8 * j - 7, 64 + 8 * j)) = bytes[j]

\* the frame of U+041F U+1F600: six payload bytes D0 9F F0 9F 98 80
C18_Witness ==
  /\ pc = "framed"
  /\ text = <<1055, 128512>>
  /\ binary = ZwstBits
              \o <<0, 0, 0, 0, 0, 0, 0, 0,  0, 0, 0, 0, 0, 0, 0, 0>>
              \o <<0, 0, 0, 0, 0, 0, 0, 0,  0, 0, 0, 0, 0, 1, 1, 0>>
              \o <<1, 1, 0, 1, 0, 0, 0, 0,  1, 0, 0, 1, 1, 1, 1, 1>>
              \o <<1, 1, 1, 1, 0, 0, 0, 0,  1, 0, 0, 1, 1, 1, 1, 1>>
              \o <<1, 0, 0, 1, 1, 0, 0, 0,  1, 0, 0, 0, 0, 0, 0, 0>>

(***************************************************************************)
(* The order of the steps of the front end.                                *)
(***************************************************************************)
\* no file has been read and no transform has run
NothingDone ==
  /\ text = <<>>
  /\ container = <<>>
  /\ encrypted = None
  /\ decrypted = None
  /\ binary = <<>>
  /\ stego = None
  /\ extracted = <<>>
  /\ unframed = None

\* the transforms of the hide command have all returned a value
HideSucceeded ==
  /\ encrypted = vigenere_encrypt(text, key)
  /\ encrypted.ok
  /\ binary = text_to_binary(encrypted.val)
  /\ stego = hide_text_in_container(binary, container)
  /\ stego.ok

\* the transforms of the extract command have all returned a value
ExtractSucceeded ==
  /\ extracted = extract_text_from_container(files.stego_container.content)
  /\ unframed = binary_to_text(extracted)
  /\ unframed.ok
  /\ decrypted = vigenere_decrypt(unframed.val, key)
  /\ decrypted.ok

\* the order of the steps in every state
OrderedState ==
  /\ pc = "main" => NothingDone
  /\ pc = "exit" => ~validate_key(key) /\ NothingDone
  /\ pc \notin {"main", "exit"} => valid /\ validate_key(key)
  /\ pc \in {"main", "exit", "hide_read", "hide_encrypt", "hide_frame",
             "hide_embed", "extract_read", "extract_unframe",
             "extract_decrypt", "extract_write", "raised"} =>
       ~files.extracted_secret.exists
  /\ pc = "raised" =>
       \/ stego = Err("container too small")
       \/ ~unframed.ok /\ unframed # None
  /\ pc = "hide_write" => HideSucceeded
  /\ pc = "extract_write" => ExtractSucceeded

\* the only steps that change a file
OrderedWrite ==
  files' # files =>
    /\ valid
    /\ \/ /\ pc = "hide_write"
          /\ HideSucceeded
          /\ files' = [files EXCEPT !.stego_container = File(stego.val)]
       \/ /\ pc = "extract_write"
          /\ ExtractSucceeded
          /\ files' = [files EXCEPT !.extracted_secret = File(decrypted.val)]

\* C15: in the hide and the extract command the key is validated before
\* any file is read or any transform is called, and the output file is
\* written only after validation and every transform has succeeded; an
\* invalid key, a carrier without the capacity or a failed unframing
\* leaves no output file written.
C15_FrontEndOrdering == []OrderedState /\ [][OrderedWrite]_vars

\* extract on "X Y Z": the key is valid, unframing fails, nothing is written
C15_Witness ==
  /\ pc = "raised"
  /\ valid
  /\ files.stego_container.content = PlainCarrier
  /\ extracted = <<>>
  /\ unframed = Err("bad magic")
  /\ ~files.extracted_secret.exists

(***************************************************************************)
(* Embedding into a carrier that already holds markers.                    *)
(***************************************************************************)
\* C19: for every bit sequence b and every carrier with at least len(b)
\* spaces, carriers that already hold markers and the outputs of earlier
\* embeds included, b is a prefix of what extract_text_from_container
\* returns for hide_text_in_container(b, carrier); after any sequence of
\* embeds of framed texts into the same carrier, unframing the extracted
\* bits returns the text embedded last.
C19_EmbeddedBitsArePrefix ==
  /\ pc = "hidden" =>
       (stego.ok <=> Len(binary) <= Cardinality(SpacePositions(container)))
  /\ pc \in {"extracted", "recovered"} =>
       /\ Len(binary) <= Len(extracted)
       /\ SubSeq(extracted, 1, Len(binary)) = binary
       /\ extracted = extract_text_from_container(stego.val)
       /\ stego = hide_text_in_container(binary, container)
  /\ pc = "recovered" /\ binary = text_to_binary(text) =>
       unframed = Ok(text)

\* the frame of the empty text hidden in a carrier that holds two earlier
\* frames: the bits of the earlier frames trail behind the 64 new ones
C19_Witness ==
  /\ pc = "recovered"
  /\ embeds = 2
  /\ text = <<>>
  /\ Len(binary) = HEADER_BITS
  /\ Cardinality(PairPositions(container)) > HEADER_BITS + 8
  /\ Len(extracted) > HEADER_BITS + 8
  /\ unframed = Ok(<<>>)

====
